---- MODULE Spec2Model ----
(***************************************************************************)
(* Startup of the KC Songbook shell, src-tauri/src/lib.rs.                 *)
(*                                                                         *)
(* The program is one function, run(): it registers three plugins on a     *)
(* tauri::Builder, installs a setup hook that constructs the "main"        *)
(* window from one of three cfg-selected blocks, and calls                 *)
(* .run(context).expect(msg).  The cfg flags (target_os = "macos",         *)
(* mobile) are fixed per build; the model starts at the build so that the  *)
(* flag combinations that yield a program are derived from the use items   *)
(* at lines 3-10 rather than assumed.                                      *)
(***************************************************************************)
EXTENDS Integers, Sequences, FiniteSets, TLC

VARIABLES
    macos,          \* cfg(target_os = "macos") of this build
    mobile,         \* cfg(mobile) of this build
    pc,             \* position in the build / in run()
    plugins,        \* plugins attached to the tauri::Builder, in order
    windows,        \* windows built by the setup hook, in order
    setupRuns,      \* number of times the setup closure was invoked
    buildAttempts,  \* number of win_builder.build() calls made
    setupResult,    \* what the setup closure returned: "none", "Ok", "Err"
    diag,           \* panic message the process died with, "" if none
    events          \* events the framework's loop has dispatched

vars == <<macos, mobile, pc, plugins, windows, setupRuns, buildAttempts,
          setupResult, diag, events>>

\* Number of event-loop dispatches explored.
MaxEvents == 24

\* An attribute that no builder method has set, and one that was set to x.
None == <<>>
Some(x) == <<x>>

\* lib.rs:60, the argument of expect.
ExpectMsg == "error while running tauri application"

\* Panic raised inside the framework, not at lib.rs:60.
FrameworkMsg == "framework panic"

----------------------------------------------------------------------------
(* Build: cfg-gated use items, lib.rs:3-10.                                *)

CfgUseMacos == macos
CfgUseDesktop == ~macos /\ ~mobile
CfgUseMobile == mobile

\* Names brought into scope by the use items that are active in this build.
Imports ==
    <<"Manager">>
    \o (IF CfgUseMacos
        THEN <<"TitleBarStyle", "WebviewUrl", "WebviewWindowBuilder">>
        ELSE <<>>)
    \o (IF CfgUseDesktop THEN <<"WebviewUrl", "WebviewWindowBuilder">> ELSE <<>>)
    \o (IF CfgUseMobile THEN <<"WebviewUrl", "WebviewWindowBuilder">> ELSE <<>>)

\* rustc rejects a name imported twice into one namespace (E0252).
ImportsUnique ==
    \A i, j \in 1..Len(Imports) : Imports[i] = Imports[j] => i = j

----------------------------------------------------------------------------
(* Plugins, lib.rs:15-21.                                                  *)

DialogPlugin == [name |-> "dialog", level |-> None]
HttpPlugin == [name |-> "http", level |-> None]

\* tauri_plugin_log::Builder::default()
LogBuilderDefault == [name |-> "log", level |-> None]

\* .level(filter)
Level(b, filter) == [b EXCEPT !.level = Some(filter)]

LogPlugin_NoLevel == LogBuilderDefault
LogPlugin == Level(LogBuilderDefault, "Info")

----------------------------------------------------------------------------
(* Window builder, lib.rs:26-32, 40-45, 53.                                *)

\* WebviewWindowBuilder::new(app, label, WebviewUrl::default())
WebviewWindowBuilderNew(label) ==
    [label |-> label, title |-> None, inner_size |-> None,
     min_inner_size |-> None, resizable |-> None, center |-> None,
     title_bar_style |-> None]

Title(b, t) == [b EXCEPT !.title = Some(t)]
InnerSize(b, w, h) == [b EXCEPT !.inner_size = Some(<<w, h>>)]
MinInnerSize(b, w, h) == [b EXCEPT !.min_inner_size = Some(<<w, h>>)]
Resizable(b, r) == [b EXCEPT !.resizable = Some(r)]
Center(b) == [b EXCEPT !.center = Some(TRUE)]
TitleBarStyleOf(b, s) == [b EXCEPT !.title_bar_style = Some(s)]

MacosWindow_Titled ==
    Center(Resizable(MinInnerSize(InnerSize(Title(
        WebviewWindowBuilderNew("main"), "KC Songbook"),
        1024, 768), 400, 300), TRUE))

\* lib.rs:26-32
MacosWindow ==
    TitleBarStyleOf(
        Center(Resizable(MinInnerSize(InnerSize(Title(
            WebviewWindowBuilderNew("main"), ""),
            1024, 768), 400, 300), TRUE)),
        "Overlay")

DesktopWindow_Overlay == MacosWindow

DesktopWindow_SwappedMin ==
    Center(Resizable(MinInnerSize(InnerSize(Title(
        WebviewWindowBuilderNew("main"), "KC Songbook"),
        1024, 768), 300, 400), TRUE))

\* lib.rs:40-45
DesktopWindow ==
    Center(Resizable(MinInnerSize(InnerSize(Title(
        WebviewWindowBuilderNew("main"), "KC Songbook"),
        1024, 768), 400, 300), TRUE))

MobileWindow_Sized == InnerSize(WebviewWindowBuilderNew("main"), 1024, 768)

\* lib.rs:53
MobileWindow == WebviewWindowBuilderNew("main")

\* cfg attributes of the three blocks of the setup closure, lib.rs:24,38,51.
CfgBlockMacos == macos
CfgBlockDesktop_NotMacos == ~macos
CfgBlockDesktop == ~macos /\ ~mobile
CfgBlockMobile == mobile

\* The builders of the blocks compiled into the closure, in source order.
ActiveBlocks ==
    (IF CfgBlockMacos THEN <<MacosWindow>> ELSE <<>>)
    \o (IF CfgBlockDesktop THEN <<DesktopWindow>> ELSE <<>>)
    \o (IF CfgBlockMobile THEN <<MobileWindow>> ELSE <<>>)

----------------------------------------------------------------------------
Init ==
    /\ macos \in BOOLEAN
    /\ mobile \in BOOLEAN
    /\ pc = "build"
    /\ plugins = <<>>
    /\ windows = <<>>
    /\ setupRuns = 0
    /\ buildAttempts = 0
    /\ setupResult = "none"
    /\ diag = ""
    /\ events = 0

\* rustc on lib.rs with the build's cfg flags.
Compile ==
    /\ pc = "build"
    /\ pc' = IF ImportsUnique THEN "entry" ELSE "compile_error"
    /\ UNCHANGED <<macos, mobile, plugins, windows, setupRuns, buildAttempts,
                   setupResult, diag, events>>

\* lib.rs:14-15
PluginDialog ==
    /\ pc = "entry"
    /\ plugins' = Append(plugins, DialogPlugin)
    /\ pc' = "dialog"
    /\ UNCHANGED <<macos, mobile, windows, setupRuns, buildAttempts,
                   setupResult, diag, events>>

PluginHttp_Twice ==
    /\ pc = "dialog"
    /\ plugins' = plugins \o <<HttpPlugin, HttpPlugin>>
    /\ pc' = "http"
    /\ UNCHANGED <<macos, mobile, windows, setupRuns, buildAttempts,
                   setupResult, diag, events>>

\* lib.rs:16
PluginHttp ==
    /\ pc = "dialog"
    /\ plugins' = Append(plugins, HttpPlugin)
    /\ pc' = "http"
    /\ UNCHANGED <<macos, mobile, windows, setupRuns, buildAttempts,
                   setupResult, diag, events>>

\* lib.rs:17-21
PluginLog ==
    /\ pc = "http"
    /\ plugins' = Append(plugins, LogPlugin)
    /\ pc' = "log"
    /\ UNCHANGED <<macos, mobile, windows, setupRuns, buildAttempts,
                   setupResult, diag, events>>

RegisterSetup_BeforeLog ==
    /\ pc = "http"
    /\ pc' = "setup_registered"
    /\ UNCHANGED <<macos, mobile, plugins, windows, setupRuns, buildAttempts,
                   setupResult, diag, events>>

\* lib.rs:22, .setup(closure): the closure is stored, not yet run.
RegisterSetup ==
    /\ pc = "log"
    /\ pc' = "setup_registered"
    /\ UNCHANGED <<macos, mobile, plugins, windows, setupRuns, buildAttempts,
                   setupResult, diag, events>>

\* lib.rs:59-60, .run(context): the application is constructed; a failure
\* is returned by run as Err and expect panics with its message.
RunApp ==
    /\ pc = "setup_registered"
    /\ \E ok \in BOOLEAN :
        IF ok
        THEN /\ pc' = "ready"
             /\ diag' = diag
        ELSE /\ pc' = "panicked"
             /\ diag' = ExpectMsg
    /\ UNCHANGED <<macos, mobile, plugins, windows, setupRuns, buildAttempts,
                   setupResult, events>>

SetupHook_Recover ==
    /\ pc = "ready"
    /\ setupRuns' = setupRuns + 1
    /\ \E n \in 0..Len(ActiveBlocks) :
        /\ windows' = windows \o SubSeq(ActiveBlocks, 1, n)
        /\ IF n = Len(ActiveBlocks)
           THEN /\ buildAttempts' = buildAttempts + n
                /\ setupResult' = "Ok"
                /\ pc' = "running"
                /\ diag' = diag
           ELSE /\ buildAttempts' = buildAttempts + n + 1
                /\ setupResult' = "Err"
                /\ pc' = "running"
                /\ diag' = diag
    /\ UNCHANGED <<macos, mobile, plugins, events>>

\* lib.rs:22-58, the setup closure, invoked by the framework inside run.
\* The active blocks run in source order; the first n builds succeed.  With
\* n short of the number of blocks, build number n+1 returned Err and `?`
\* returned it from the closure.  What the framework does with that Err is
\* decided in tauri::Builder::run, outside this repository: run returns it
\* (expect at line 60 panics with ExpectMsg) or the framework panics on it
\* itself with its own message.
SetupHook ==
    /\ pc = "ready"
    /\ setupRuns' = setupRuns + 1
    /\ \E n \in 0..Len(ActiveBlocks) :
        /\ windows' = windows \o SubSeq(ActiveBlocks, 1, n)
        /\ IF n = Len(ActiveBlocks)
           THEN /\ buildAttempts' = buildAttempts + n
                /\ setupResult' = "Ok"
                /\ pc' = "running"
                /\ diag' = diag
           ELSE /\ buildAttempts' = buildAttempts + n + 1
                /\ setupResult' = "Err"
                /\ pc' = "panicked"
                /\ diag' \in {ExpectMsg, FrameworkMsg}
    /\ UNCHANGED <<macos, mobile, plugins, events>>

EventLoop_ClosesWindow ==
    /\ pc = "running"
    /\ events < MaxEvents
    /\ events' = events + 1
    /\ windows' = <<>>
    /\ UNCHANGED <<macos, mobile, pc, plugins, setupRuns, buildAttempts,
                   setupResult, diag>>

\* lib.rs:59, the framework's event loop.  run() installs no event
\* callback, invoke handler or window-event handler, so a dispatched event
\* reaches no code of the application.
EventLoop ==
    /\ pc = "running"
    /\ events < MaxEvents
    /\ events' = events + 1
    /\ UNCHANGED <<macos, mobile, pc, plugins, windows, setupRuns,
                   buildAttempts, setupResult, diag>>

\* lib.rs:59-61, the loop ends and run() returns Ok(()): expect passes.
Exit ==
    /\ pc = "running"
    /\ pc' = "exited"
    /\ UNCHANGED <<macos, mobile, plugins, windows, setupRuns, buildAttempts,
                   setupResult, diag, events>>

Next ==
    \/ Compile
    \/ PluginDialog
    \/ PluginHttp
    \/ PluginLog
    \/ RegisterSetup
    \/ RunApp
    \/ SetupHook
    \/ EventLoop
    \/ Exit

Spec == Init /\ [][Next]_vars

----------------------------------------------------------------------------
(* Properties.                                                             *)

\* run() has got past the setup hook with Ok.
Started == pc \in {"running", "exited"}

\* C1: on a macOS build every window the setup hook constructs has the
\* empty title "" and the Overlay title-bar style.
C1_MacosTitleAndStyle ==
    macos =>
        \A i \in 1..Len(windows) :
            /\ windows[i].title = Some("")
            /\ windows[i].title_bar_style = Some("Overlay")

C1_Witness == macos /\ pc = "running" /\ Len(windows) = 1

\* C2: on a build that is neither macOS nor mobile every window the setup
\* hook constructs has the title "KC Songbook" and no title-bar style set.
C2_DesktopTitleAndStyle ==
    (~macos /\ ~mobile) =>
        \A i \in 1..Len(windows) :
            /\ windows[i].title = Some("KC Songbook")
            /\ windows[i].title_bar_style = None

C2_Witness == ~macos /\ ~mobile /\ pc = "running" /\ Len(windows) = 1

\* C3: on a mobile build every window the setup hook constructs is the
\* builder as new() returned it: no title, size, minimum size, resizable
\* flag, centering or title-bar style was set.
C3_MobileDefaults ==
    mobile =>
        \A i \in 1..Len(windows) :
            /\ windows[i].title = None
            /\ windows[i].inner_size = None
            /\ windows[i].min_inner_size = None
            /\ windows[i].resizable = None
            /\ windows[i].center = None
            /\ windows[i].title_bar_style = None

C3_Witness == mobile /\ ~macos /\ pc = "running" /\ Len(windows) = 1

\* C4: on both desktop variants every constructed window has inner size
\* 1024x768, minimum inner size 400x300, is resizable and is centered.
C4_DesktopGeometry ==
    ~mobile =>
        \A i \in 1..Len(windows) :
            /\ windows[i].inner_size = Some(<<1024, 768>>)
            /\ windows[i].min_inner_size = Some(<<400, 300>>)
            /\ windows[i].resizable = Some(TRUE)
            /\ windows[i].center = Some(TRUE)

C4_Witness ==
    ~mobile /\ ~macos /\ pc = "exited" /\ Len(windows) = 1
    /\ windows[1].inner_size = MacosWindow.inner_size
    /\ windows[1].min_inner_size = MacosWindow.min_inner_size

PluginNames == [i \in 1..Len(plugins) |-> plugins[i].name]

\* C5: whatever the platform, the plugins registered are always a prefix of
\* dialog, http, log, and from the third registration on they are exactly
\* these three, once each, in that order.
C5_ThreePluginsInOrder ==
    /\ PluginNames = SubSeq(<<"dialog", "http", "log">>, 1, Len(plugins))
    /\ pc \in {"log", "setup_registered", "ready", "running", "exited",
               "panicked"}
           => PluginNames = <<"dialog", "http", "log">>

C5_Witness == mobile /\ pc = "running" /\ Len(plugins) = 3

C7_ExactlyOneBlock ==
    /\ pc = "compile_error" => (macos /\ mobile)
    /\ pc \notin {"build", "compile_error"} => Len(ActiveBlocks) = 1
    /\ Started => (Len(windows) = 1 /\ windows[1].label = "main")
    /\ \A i \in 1..Len(windows) : windows[i].label = "main"

C7_Witness ==
    /\ pc = "running" /\ Len(windows) = 1 /\ windows[1].label = "main"
    /\ mobile /\ buildAttempts = 1

\* C8: on every platform the log plugin registered carries the Info level
\* filter.
C8_LogLevelInfo ==
    \A i \in 1..Len(plugins) :
        plugins[i].name = "log" => plugins[i].level = Some("Info")

C8_Witness == macos /\ pc = "ready" /\ Len(plugins) = 3 /\ plugins[3].name = "log"

\* C9: the setup hook runs at most once and only with all three plugins
\* registered; the loop is running (or has run) only if setup ran, returned
\* Ok and built the main window; no event is dispatched otherwise.
C9_StartupOrder ==
    /\ setupRuns <= 1
    /\ setupRuns >= 1 => Len(plugins) = 3
    /\ Len(windows) >= 1 => setupRuns = 1
    /\ Started => (setupRuns = 1 /\ setupResult = "Ok" /\ Len(windows) = 1)
    /\ events > 0 => (Started /\ setupResult = "Ok")

C9_Witness == pc = "running" /\ events = 2 /\ setupRuns = 1

\* C10: a step taken while the loop is running leaves the registered
\* plugins and the windows with all their configured attributes unchanged.
C10_NothingAfterLoopStart ==
    [][pc = "running" => (plugins' = plugins /\ windows' = windows)]_vars

C10_Witness == pc = "exited" /\ events = MaxEvents /\ Len(windows) = 1

====
